---- MODULE Spec2Model ----
(***************************************************************************)
(* A model of the prepare-videos scripts: prepare-videos.py (discovery,    *)
(* subtitle resolution, transcoding), get-subs.py (subtitle resolution     *)
(* only) and transcode-videos.py (transcoding only).                       *)
(*                                                                         *)
(* The filesystem is a function from the paths of the regular files that   *)
(* exist to their contents, together with the set of directories.  A path  *)
(* is a record [dir, base, ext]: os.path.split and os.path.splitext are    *)
(* the projections of that record.  The external tools (ffprobe,           *)
(* mkvextract, the subtitle download, ffmpeg) are nondeterministic in      *)
(* their exit status.  hist is a history variable: the sequence of the     *)
(* calls a run has made.                                                   *)
(***************************************************************************)
EXTENDS Integers, Sequences, FiniteSets, TLC

VARIABLES script, args, fs, dirs, pc, walked, found, videos, i, command, hist

vars == <<script, args, fs, dirs, pc, walked, found, videos, i, command, hist>>

(***************************************************************************)
(* Bounds of the model.                                                    *)
(***************************************************************************)
\* The number of files the filesystem holds when a run starts.
MaxFiles == 3
\* The number of streams of a file given to the planner on its own.
MaxStreams == 3

(***************************************************************************)
(* Paths.                                                                  *)
(***************************************************************************)
Top == <<"videos">>
Home == <<"home">>

Path(d, b, e) == [dir |-> d, base |-> b, ext |-> e]

\* os.path.basename of a directory
Basename(d) == IF d = <<>> THEN "" ELSE d[Len(d)]

\* os.path.join(video.directory, video.basename + ".srt")
SubPath(p) == Path(p.dir, p.base, ".srt")

\* os.path.join(video.directory, video.basename + "." + args.container)
TargetPath(p, container) == Path(p.dir, p.base, "." \o container)

\* os.path.join(video.directory, ".original")
OriginalDir(p) == Append(p.dir, ".original")

\* os.path.join(original_dir, video.filename)
OriginalFile(p) == Path(OriginalDir(p), p.base, p.ext)

(***************************************************************************)
(* Contents.                                                               *)
(***************************************************************************)
Stream(n, t, c) == [index |-> n, codec_type |-> t, codec_name |-> c]

\* hevc video, two audio tracks, a subrip subtitle as track 3
MediaHevcSub ==
    << Stream(0, "video", "hevc"), Stream(1, "audio", "dts"),
       Stream(2, "audio", "aac"), Stream(3, "subtitle", "subrip") >>

\* supported codecs, no subtitle track
MediaPlain == << Stream(0, "video", "h264"), Stream(1, "audio", "ac3") >>

MediaOptions == {MediaHevcSub, MediaPlain}

Content(k, o, s) == [kind |-> k, origin |-> o, streams |-> s]

NoContent == Content("none", "", <<>>)

Write(fsx, p, c) == [q \in (DOMAIN fsx) \cup {p} |-> IF q = p THEN c ELSE fsx[q]]

Remove(fsx, p) == [q \in (DOMAIN fsx) \ {p} |-> fsx[q]]

\* os.path.isfile
IsFile(fsx, p) == p \in DOMAIN fsx

\* os.path.exists of a file path
Exists(fsx, p) == p \in DOMAIN fsx

ContentAt(fsx, p) == IF p \in DOMAIN fsx THEN fsx[p] ELSE NoContent

(***************************************************************************)
(* Directory listings.  os.walk and os.listdir give the entries of a       *)
(* directory in an order the filesystem chooses: either of two orders      *)
(* here.                                                                   *)
(***************************************************************************)
DirNames == <<".original", "sub">>

FileNames ==
    << [base |-> "movie", ext |-> ".mkv"], [base |-> "movie", ext |-> ".mp4"],
       [base |-> "movie", ext |-> ".srt"] >>

Reverse(s) == [k \in 1..Len(s) |-> s[Len(s) + 1 - k]]

Listing(s, rev) == IF rev THEN Reverse(s) ELSE s

IsSubDir(d, n, dirsx) == Append(d, n) \in dirsx

SubDirs(d, dirsx, rev) ==
    LET names == SelectSeq(DirNames, LAMBDA n : IsSubDir(d, n, dirsx))
    IN  Listing([k \in 1..Len(names) |-> Append(d, names[k])], rev)

FilesIn(d, fsx, rev) ==
    Listing(SelectSeq(FileNames, LAMBDA n : Path(d, n.base, n.ext) \in DOMAIN fsx), rev)

RECURSIVE Walk(_, _, _), WalkAll(_, _, _)
\* os.walk(directory), top-down: the directories in the order they are yielded
Walk(d, dirsx, rev) == <<d>> \o WalkAll(SubDirs(d, dirsx, rev), dirsx, rev)

WalkAll(ds, dirsx, rev) ==
    IF ds = <<>> THEN <<>>
    ELSE Walk(Head(ds), dirsx, rev) \o WalkAll(Tail(ds), dirsx, rev)

(***************************************************************************)
(* File discovery.                                                         *)
(***************************************************************************)
supported_extensions == {".mkv", ".mp4", ".avi", ".mpg", ".mpeg", ".divx"}

is_supported_video_file(fsx, p) == IsFile(fsx, p) /\ p.ext \in supported_extensions

\* if os.path.basename(root) == ".original": continue
SkipRoot(root) == Basename(root) = ".original"

\* The inner loop of the walk over one root: the files of root that are yielded.
WalkRoot(root, fsx, rev, skip) ==
    IF skip /\ SkipRoot(root) THEN <<>>
    ELSE LET names == FilesIn(root, fsx, rev)
             paths == [k \in 1..Len(names) |-> Path(root, names[k].base, names[k].ext)]
         IN  SelectSeq(paths, LAMBDA p : is_supported_video_file(fsx, p))

RECURSIVE WalkRoots(_, _, _, _)
WalkRoots(roots, fsx, rev, skip) ==
    IF roots = <<>> THEN <<>>
    ELSE WalkRoot(Head(roots), fsx, rev, skip) \o WalkRoots(Tail(roots), fsx, rev, skip)

\* The value of the name `files` after the walk: the loop variable of
\* "for root, dirs, files in os.walk(directory)" is the parameter itself, so it
\* holds the file names of the last directory walked, which the loop over the
\* explicit files then resolves against the working directory.  The walk of
\* a directory that does not exist yields nothing and rebinds nothing.
FilesAfterWalk(a, fsx, dirsx, rev) ==
    IF a.directory = <<>> \/ a.directory[1] \notin dirsx THEN a.file
    ELSE LET roots == Walk(a.directory[1], dirsx, rev)
             names == FilesIn(roots[Len(roots)], fsx, rev)
         IN  [k \in 1..Len(names) |-> Path(a.cwd, names[k].base, names[k].ext)]

\* search_videos: the paths of the walk, and the paths of the loop over `files`
search_videos(a, fsx, dirsx, rev, skip) ==
    [ walk  |-> IF a.directory = <<>> THEN <<>>
                ELSE WalkRoots(Walk(a.directory[1], dirsx, rev), fsx, rev, skip),
      files |-> SelectSeq(FilesAfterWalk(a, fsx, dirsx, rev),
                          LAMBDA p : is_supported_video_file(fsx, p)) ]

(***************************************************************************)
(* History: one record per call a run makes.  ok is the outcome of the     *)
(* call (for get_subtitles: whether the sibling .srt existed when it was   *)
(* called), track the subtitle track handed to mkvextract, input the       *)
(* content of the file at path (for ffmpeg: of the backup) when the call   *)
(* was made.                                                               *)
(***************************************************************************)
Ev(op, p, ok, n, c) == [op |-> op, path |-> p, ok |-> ok, track |-> n, input |-> c]

Result(fsx, ev) == [fs |-> fsx, ev |-> ev]

(***************************************************************************)
(* Media inspection (prepare-videos.py).                                   *)
(***************************************************************************)
RECURSIVE scan_embedded_subtitles(_)
\* Video._scan_embedded_subtitles: the first subrip subtitle stream
scan_embedded_subtitles(streams) ==
    IF streams = <<>> THEN [has |-> FALSE, id |-> -1]
    ELSE IF Head(streams).codec_type = "subtitle" /\ Head(streams).codec_name = "subrip"
         THEN [has |-> TRUE, id |-> Head(streams).index]
         ELSE scan_embedded_subtitles(Tail(streams))

\* Video._scan_external_subtitles
scan_external_subtitles(p, fsx) == IsFile(fsx, SubPath(p))

\* Video.__init__ on a file ffprobe can read
Video(p, fsx) ==
    LET e == scan_embedded_subtitles(ContentAt(fsx, p).streams)
    IN  [ path |-> p, info |-> ContentAt(fsx, p).streams,
          has_embedded_sub |-> e.has, embedded_sub_id |-> e.id,
          has_external_sub |-> scan_external_subtitles(p, fsx) ]

(***************************************************************************)
(* Subtitle resolution (prepare-videos.py).                                *)
(***************************************************************************)
\* mkvextract writes the track when it is a subtitle track of an existing input.
HasSubtitleTrack(c, n) ==
    \E k \in 1..Len(c.streams) :
        c.streams[k].index = n /\ c.streams[k].codec_type = "subtitle"

\* download_sub: scan_video raises ValueError for a path that does not exist;
\* save_subtitles(single=True) writes <basename>.srt beside the video.
download_sub(video, fsx, online) ==
    IF ~Exists(fsx, video.path)
    THEN Result(fsx, <<Ev("download_sub", video.path, FALSE, -1, NoContent)>>)
    ELSE IF online
         THEN Result(Write(fsx, SubPath(video.path), Content("srt", "download", <<>>)),
                     <<Ev("download_sub", video.path, TRUE, -1, fsx[video.path])>>)
         ELSE Result(fsx, <<Ev("download_sub", video.path, FALSE, -1, fsx[video.path])>>)

\* What extract_embedded_sub does when mkvextract returns non-zero.
ExtractFailed(video, fsx, online) == download_sub(video, fsx, online)

\* extract_embedded_sub: retval == 0 or the fallback
extract_embedded_sub(video, fsx, retval0, online) ==
    LET c  == ContentAt(fsx, video.path)
        ok == retval0 /\ Exists(fsx, video.path) /\ HasSubtitleTrack(c, video.embedded_sub_id)
        ev == Ev("mkvextract", video.path, ok, video.embedded_sub_id, c)
    IN  IF ok
        THEN Result(Write(fsx, SubPath(video.path), Content("srt", "extract", <<>>)), <<ev>>)
        ELSE LET d == ExtractFailed(video, fsx, online)
             IN  Result(d.fs, <<ev>> \o d.ev)

\* The test of get_subtitles: not video.has_external_sub
NeedsSubtitles(video, fsx) == ~video.has_external_sub

\* A faulty variant of get_subtitles: -ds is not looked at.
get_subtitlesIgnoringForce(video, a, fsx, retval0, online) ==
    LET call == Ev("get_subtitles", video.path, IsFile(fsx, SubPath(video.path)), -1,
                   ContentAt(fsx, video.path))
    IN  IF NeedsSubtitles(video, fsx)
        THEN LET r == IF video.has_embedded_sub
                      THEN extract_embedded_sub(video, fsx, retval0, online)
                      ELSE download_sub(video, fsx, online)
             IN  Result(r.fs, <<call>> \o r.ev)
        ELSE Result(fsx, <<call>>)

\* get_subtitles
get_subtitles(video, a, fsx, retval0, online) ==
    LET call == Ev("get_subtitles", video.path, IsFile(fsx, SubPath(video.path)), -1,
                   ContentAt(fsx, video.path))
    IN  IF NeedsSubtitles(video, fsx)
        THEN LET r == IF video.has_embedded_sub /\ ~a.download_subtitles
                      THEN extract_embedded_sub(video, fsx, retval0, online)
                      ELSE download_sub(video, fsx, online)
             IN  Result(r.fs, <<call>> \o r.ev)
        ELSE Result(fsx, <<call>>)

(***************************************************************************)
(* Subtitle resolution (get-subs.py).                                      *)
(***************************************************************************)
\* Video.__init__ of get-subs.py
gs_Video(p, fsx) ==
    LET e == scan_embedded_subtitles(ContentAt(fsx, p).streams)
    IN  [ path |-> p, info |-> ContentAt(fsx, p).streams,
          has_embedded_sub |-> e.has, embedded_sub_id |-> e.id ]

\* Video.has_external_subtitles
gs_has_external_subtitles(video, fsx) == IsFile(fsx, SubPath(video.path))

\* Video.download_sub
gs_download_sub(video, fsx, online) ==
    IF online
    THEN Result(Write(fsx, SubPath(video.path), Content("srt", "download", <<>>)),
                <<Ev("download_sub", video.path, TRUE, -1, ContentAt(fsx, video.path))>>)
    ELSE Result(fsx, <<Ev("download_sub", video.path, FALSE, -1, ContentAt(fsx, video.path))>>)

\* Video.extract_embedded_sub: a non-zero retval is logged and nothing else
gs_extract_embedded_sub(video, fsx, retval0) ==
    LET c  == ContentAt(fsx, video.path)
        ok == retval0 /\ Exists(fsx, video.path) /\ HasSubtitleTrack(c, video.embedded_sub_id)
        ev == Ev("mkvextract", video.path, ok, video.embedded_sub_id, c)
    IN  IF ok
        THEN Result(Write(fsx, SubPath(video.path), Content("srt", "extract", <<>>)), <<ev>>)
        ELSE Result(fsx, <<ev>>)

\* Video.get_subtitles
gs_get_subtitles(video, force_download, fsx, retval0, online) ==
    LET call == Ev("get_subtitles", video.path, IsFile(fsx, SubPath(video.path)), -1,
                   ContentAt(fsx, video.path))
    IN  IF ~gs_has_external_subtitles(video, fsx)
        THEN LET r == IF force_download THEN gs_download_sub(video, fsx, online)
                      ELSE IF video.has_embedded_sub
                           THEN gs_extract_embedded_sub(video, fsx, retval0)
                           ELSE gs_download_sub(video, fsx, online)
             IN  Result(r.fs, <<call>> \o r.ev)
        ELSE Result(fsx, <<call>>)

(***************************************************************************)
(* Transcode planning (transcode_video of prepare-videos.py and of         *)
(* transcode-videos.py, the same code up to the encoder's return).         *)
(***************************************************************************)
\* A faulty variant of UnsupportedVideoStream: the membership test inverted.
UnsupportedVideoStreamInverted(s, a) ==
    s.codec_type = "video" /\ s.codec_name \notin a.unsupported_video_codecs

\* stream['codec_type'] == "video" and stream['codec_name'] in args.unsupported_video_codecs
UnsupportedVideoStream(s, a) ==
    s.codec_type = "video" /\ s.codec_name \in a.unsupported_video_codecs

\* A faulty variant of UnsupportedAudioStream: the double negation resolved to "or".
UnsupportedAudioStreamEither(s, a) ==
    s.codec_type = "audio" \/ s.codec_name \in a.unsupported_audio_codecs

\* not (not (codec_type == "audio") or not (codec_name in args.unsupported_audio_codecs))
UnsupportedAudioStream(s, a) ==
    ~(~(s.codec_type = "audio") \/ ~(s.codec_name \in a.unsupported_audio_codecs))

RECURSIVE supported_codecs(_, _, _, _)
\* The loop over video.info['streams'], from the flags sv and sa
supported_codecs(streams, a, sv, sa) ==
    IF streams = <<>> THEN [video |-> sv, audio |-> sa]
    ELSE supported_codecs(Tail(streams), a,
                          IF UnsupportedVideoStream(Head(streams), a) THEN FALSE ELSE sv,
                          IF UnsupportedAudioStream(Head(streams), a) THEN FALSE ELSE sa)

\* supported_video_codec, supported_audio_codec after the loop
Supported(video, a) == supported_codecs(video.info, a, TRUE, TRUE)

\* if not supported_video_codec or not supported_audio_codec
NeedsTranscode(video, a) == ~Supported(video, a).video \/ ~Supported(video, a).audio

NoPath == Path(<<>>, "", "")

NoCommand == [input |-> NoPath, opts |-> <<>>, output |-> NoPath]

\* The encoder command: ffmpeg -i <input> <opts> <output>
ffmpeg_command(video, a) ==
    [ input  |-> OriginalFile(video.path),
      opts   |-> <<"-nostats", "-loglevel", "0">>
                 \o (IF ~Supported(video, a).video
                     THEN <<"-c:v", a.vcodec, "-preset", "slow">>
                     ELSE <<"-vcodec", "copy">>)
                 \o (IF ~Supported(video, a).audio
                     THEN <<"-c:a", a.audio_codec>>
                     ELSE <<"-acodec", "copy">>)
                 \o <<"-scodec", "copy">>,
      output |-> TargetPath(video.path, a.container) ]

\* A faulty variant of Rename: the source is copied, not moved.
RenameKeepsSource(fsx, src, dst) == Write(fsx, dst, ContentAt(fsx, src))

\* os.rename(src, dst)
Rename(fsx, src, dst) == Write(Remove(fsx, src), dst, ContentAt(fsx, src))

\* A faulty variant of CancelGuard: the guard is gone.
CancelGuardNever(fsx, original_file) == FALSE

\* if os.path.exists(original_file): return
CancelGuard(fsx, original_file) == Exists(fsx, original_file)

\* A faulty variant of SkipGuard: the guard is gone.
SkipGuardNever(moved, target) == FALSE

\* if os.path.isfile(target): return, on the filesystem after the move
SkipGuard(moved, target) == IsFile(moved, target)

\* transcode_video up to the call of the encoder.  outcome is "none" (no
\* transcoding needed), "cancel" (the backup exists), "raise" (os.rename found
\* no source), "skip" (the target exists after the move) or "encode".
transcode_plan(video, a, fsx, dirsx) ==
    LET target        == TargetPath(video.path, a.container)
        original_dir  == OriginalDir(video.path)
        original_file == OriginalFile(video.path)
        src           == ContentAt(fsx, video.path)
        call(need)    == Ev("transcode_video", video.path, need, -1, src)
        moved         == Rename(fsx, video.path, original_file)
        none          == [fs |-> fsx, dirs |-> dirsx, ev |-> <<>>, outcome |-> "none",
                          command |-> NoCommand]
    IN  IF ~NeedsTranscode(video, a)
        THEN [none EXCEPT !.ev = <<call(FALSE)>>]
        ELSE IF CancelGuard(fsx, original_file)
        THEN [none EXCEPT !.ev = <<call(TRUE), Ev("cancel", video.path, TRUE, -1, src)>>,
                          !.outcome = "cancel"]
        ELSE IF ~Exists(fsx, video.path)
        THEN [none EXCEPT !.ev = <<call(TRUE), Ev("rename", video.path, FALSE, -1, src)>>,
                          !.outcome = "raise",
                          !.dirs = dirsx \cup {original_dir}]
        ELSE IF SkipGuard(moved, target)
        THEN [none EXCEPT !.ev = <<call(TRUE), Ev("rename", video.path, TRUE, -1, src),
                                   Ev("skip", video.path, TRUE, -1, src)>>,
                          !.outcome = "skip", !.fs = moved,
                          !.dirs = dirsx \cup {original_dir}]
        ELSE [none EXCEPT !.ev = <<call(TRUE), Ev("rename", video.path, TRUE, -1, src)>>,
                          !.outcome = "encode", !.fs = moved,
                          !.dirs = dirsx \cup {original_dir},
                          !.command = ffmpeg_command(video, a)]

(***************************************************************************)
(* The encoder.  Without -map, ffmpeg takes one video, one audio and one   *)
(* subtitle stream of its input and numbers them from 0; libx264 writes    *)
(* h264.                                                                   *)
(***************************************************************************)
CodecNameOf(encoder) == IF encoder = "libx264" THEN "h264" ELSE encoder

FirstOfType(streams, t) ==
    LET s == SelectSeq(streams, LAMBDA x : x.codec_type = t)
    IN  IF s = <<>> THEN <<>> ELSE <<Head(s)>>

HasOpt(cmd, o) == \E k \in 1..Len(cmd.opts) : cmd.opts[k] = o

ffmpeg_output(streams, cmd, a) ==
    LET picked == FirstOfType(streams, "video") \o FirstOfType(streams, "audio")
                  \o FirstOfType(streams, "subtitle")
        name(s) == IF s.codec_type = "video" /\ HasOpt(cmd, "-c:v") THEN CodecNameOf(a.vcodec)
                   ELSE IF s.codec_type = "audio" /\ HasOpt(cmd, "-c:a")
                        THEN CodecNameOf(a.audio_codec)
                        ELSE s.codec_name
    IN  [k \in 1..Len(picked) |-> Stream(k - 1, picked[k].codec_type, name(picked[k]))]

\* A faulty variant of CleanUp: the failed output is left in place.
CleanUpKeepsTarget(fsx, target) == fsx

\* if retval != 0: if os.path.isfile(target): os.remove(target)
CleanUp(fsx, target) == IF IsFile(fsx, target) THEN Remove(fsx, target) ELSE fsx

(***************************************************************************)
(* The initial states: a command line and a filesystem.                    *)
(***************************************************************************)
Scripts == {"prepare-videos", "get-subs", "transcode-videos"}

Candidate(p, o) == [path |-> p, origin |-> o]

\* The files a filesystem may hold when a run starts.
Candidates ==
    << Candidate(Path(Top, "movie", ".mkv"), "a"),
       Candidate(Path(Top, "movie", ".mp4"), "b"),
       Candidate(Path(Top, "movie", ".srt"), "c"),
       Candidate(Path(Append(Top, ".original"), "movie", ".mp4"), "d"),
       Candidate(Path(Append(Top, ".original"), "movie", ".mkv"), "e"),
       Candidate(Path(<<"videos", ".original", "sub">>, "movie", ".mkv"), "f") >>

IsMedia(k) == Candidates[k].path.ext # ".srt"

Prefixes(d) == {SubSeq(d, 1, n) : n \in 0..Len(d)}

DirsOf(fsx) == UNION {Prefixes(p.dir) : p \in DOMAIN fsx} \cup {<<>>, Top, Home}

InitialFs(S, m) ==
    [p \in {Candidates[k].path : k \in S} |->
        LET k == CHOOSE n \in S : Candidates[n].path = p
        IN  IF IsMedia(k) THEN Content("orig", Candidates[k].origin, m[k])
            ELSE Content("srt", "given", <<>>)]

InitialFilesystems ==
    UNION { {InitialFs(S, m) : m \in [{k \in S : IsMedia(k)} -> MediaOptions]} :
            S \in {T \in SUBSET (1..Len(Candidates)) : Cardinality(T) <= MaxFiles} }

CommandLine(d, f, c) == [directory |-> d, file |-> f, cwd |-> c]

\* -d and the positional files, with the working directory
CommandLines ==
    { CommandLine(<<>>, <<>>, Home),
      CommandLine(<<Top>>, <<>>, Top),
      CommandLine(<<Top>>, <<>>, Home),
      CommandLine(<<>>, <<Candidates[1].path>>, Home),
      CommandLine(<<>>, <<Candidates[2].path, Candidates[2].path>>, Home),
      CommandLine(<<Top>>, <<Candidates[2].path>>, Home),
      CommandLine(<<Append(Top, ".original")>>, <<Candidates[1].path>>, Home) }

\* The argparse defaults of each script
DefaultUnsupportedVideo(s) == IF s = "prepare-videos" THEN {"hevc"} ELSE {}

DefaultUnsupportedAudio(s) == IF s = "prepare-videos" THEN {"dts", "dca"} ELSE {}

Args(cl, ds, uv, ua) ==
    [ directory |-> cl.directory, file |-> cl.file, cwd |-> cl.cwd,
      download_subtitles |-> ds,
      unsupported_video_codecs |-> uv, unsupported_audio_codecs |-> ua,
      container |-> "mkv", vcodec |-> "libx264", audio_codec |-> "ac3" ]

Init ==
    /\ script \in Scripts
    /\ \E cl \in CommandLines, ds \in BOOLEAN :
          /\ script = "transcode-videos" => ~ds
          /\ args = Args(cl, ds, DefaultUnsupportedVideo(script), DefaultUnsupportedAudio(script))
    /\ fs \in InitialFilesystems
    /\ dirs = DirsOf(fs)
    /\ pc = "start"
    /\ walked = <<>>
    /\ found = <<>>
    /\ videos = <<>>
    /\ i = 1
    /\ command = NoCommand
    /\ hist = <<>>

(***************************************************************************)
(* prepare-videos.py                                                       *)
(***************************************************************************)
Probes(paths, bad) ==
    [k \in 1..(IF bad = 0 THEN Len(paths) ELSE bad) |->
        Ev("ffprobe", paths[k], k # bad, -1, ContentAt(fs, paths[k]))]

\* What a non-zero status of ffprobe does in Video._scan_video: sys.exit(1)
OnProbeFailure == "exit1"

\* A faulty variant of FirstStep: the main loop transcodes without resolving first.
FirstStepTranscode == "transcode_video"

\* The step of the main loop that follows search_videos, and the one that
\* follows get_subtitles(v)
FirstStep == "get_subtitles"

SecondStep == "transcode_video"

\* A faulty variant of NextVideo: the loop takes the same video again.
NextVideoAgain ==
    /\ i' = i
    /\ pc' = FirstStep

\* The next iteration of "for v in videos"
NextVideo ==
    /\ i' = i + 1
    /\ pc' = IF i + 1 > Len(videos) THEN "done" ELSE FirstStep

\* videos = search_videos(directory=args.directory, files=args.file), with the
\* Video built for each path; bad is the path whose probe fails, 0 for none.
SearchVideos ==
    /\ pc = "start"
    /\ script = "prepare-videos"
    /\ IF args.directory = <<>> /\ args.file = <<>>
       THEN /\ pc' = "exit1"
            /\ UNCHANGED <<walked, found, videos, hist>>
       ELSE \E rev \in BOOLEAN :
              LET s   == search_videos(args, fs, dirs, rev, TRUE)
                  all == s.walk \o s.files
              IN  \E bad \in 0..Len(all) :
                    /\ walked' = s.walk
                    /\ found' = all
                    /\ hist' = hist \o Probes(all, bad)
                    /\ IF bad # 0
                       THEN /\ pc' = OnProbeFailure
                            /\ videos' = [k \in 1..(bad - 1) |-> Video(all[k], fs)]
                       ELSE /\ videos' = [k \in 1..Len(all) |-> Video(all[k], fs)]
                            /\ pc' = IF all = <<>> THEN "done" ELSE FirstStep
    /\ UNCHANGED <<script, args, fs, dirs, i, command>>

\* get_subtitles(v) of the main loop
GetSubtitles ==
    /\ pc = "get_subtitles"
    /\ \E retval0 \in BOOLEAN, online \in BOOLEAN :
          LET r == get_subtitles(videos[i], args, fs, retval0, online)
          IN  /\ fs' = r.fs
              /\ hist' = hist \o r.ev
    /\ pc' = SecondStep
    /\ UNCHANGED <<script, args, dirs, walked, found, videos, i, command>>

\* transcode_video(v) of the main loop, up to the call of the encoder
TranscodeVideo ==
    /\ pc = "transcode_video"
    /\ LET r == transcode_plan(videos[i], args, fs, dirs)
       IN  /\ fs' = r.fs
           /\ dirs' = r.dirs
           /\ hist' = hist \o r.ev
           /\ command' = r.command
           /\ IF r.outcome = "encode" THEN pc' = "ffmpeg" /\ i' = i
              ELSE IF r.outcome = "raise" THEN pc' = "crashed" /\ i' = i
              ELSE NextVideo
    /\ UNCHANGED <<script, args, walked, found, videos>>

\* retval = subprocess.call(command) and what follows it: the clean-up when
\* retval != 0, get_subtitles(Video(target)) otherwise.  partial: the failed
\* encoder left a file at the target.
Ffmpeg ==
    /\ pc = "ffmpeg"
    /\ \E ok \in BOOLEAN, partial \in BOOLEAN, probed \in BOOLEAN,
          retval0 \in BOOLEAN, online \in BOOLEAN :
          LET v       == videos[i]
              target  == command.output
              source  == ContentAt(fs, command.input)
              call    == Ev("ffmpeg", v.path, ok, -1, source)
              failed  == IF partial THEN Write(fs, target, Content("partial", source.origin, <<>>))
                         ELSE fs
              encoded == Write(fs, target,
                               Content("enc", source.origin,
                                       ffmpeg_output(source.streams, command, args)))
          IN  IF ~ok
              THEN /\ fs' = CleanUp(failed, target)
                   /\ hist' = IF IsFile(failed, target)
                              THEN hist \o <<call, Ev("remove", target, TRUE, -1, failed[target])>>
                              ELSE Append(hist, call)
                   /\ NextVideo
              ELSE IF ~probed
              THEN /\ fs' = encoded
                   /\ hist' = hist \o <<call, Ev("ffprobe", target, FALSE, -1, encoded[target])>>
                   /\ pc' = OnProbeFailure
                   /\ i' = i
              ELSE LET r == get_subtitles(Video(target, encoded), args, encoded, retval0, online)
                   IN  /\ fs' = r.fs
                       /\ hist' = hist \o <<call, Ev("ffprobe", target, TRUE, -1, encoded[target])>>
                                       \o r.ev
                       /\ NextVideo
    /\ UNCHANGED <<script, args, dirs, walked, found, videos, command>>

(***************************************************************************)
(* get-subs.py                                                             *)
(***************************************************************************)
\* The generator search_videos up to its first yield: ValueError is not caught.
GetSubsSearch ==
    /\ pc = "start"
    /\ script = "get-subs"
    /\ IF args.directory = <<>> /\ args.file = <<>>
       THEN /\ pc' = "crashed"
            /\ UNCHANGED <<walked, found>>
       ELSE \E rev \in BOOLEAN :
              LET s == search_videos(args, fs, dirs, rev, FALSE)
              IN  /\ walked' = s.walk
                  /\ found' = s.walk \o s.files
                  /\ pc' = IF s.walk \o s.files = <<>> THEN "done" ELSE "next"
    /\ UNCHANGED <<script, args, fs, dirs, videos, i, command, hist>>

\* One iteration of the main loop: yield Video(f), then v.get_subtitles(...).
\* subprocess.check_output raises CalledProcessError, which nothing catches.
GetSubsProcess ==
    /\ pc = "next"
    /\ script = "get-subs"
    /\ \E probed \in BOOLEAN, retval0 \in BOOLEAN, online \in BOOLEAN :
          LET f == found[i]
              v == gs_Video(f, fs)
              r == gs_get_subtitles(v, args.download_subtitles, fs, retval0, online)
          IN  IF ~probed
              THEN /\ hist' = Append(hist, Ev("ffprobe", f, FALSE, -1, ContentAt(fs, f)))
                   /\ pc' = "crashed"
                   /\ UNCHANGED <<fs, videos, i>>
              ELSE /\ hist' = hist \o <<Ev("ffprobe", f, TRUE, -1, ContentAt(fs, f))>> \o r.ev
                   /\ fs' = r.fs
                   /\ videos' = Append(videos, v)
                   /\ i' = i + 1
                   /\ pc' = IF i + 1 > Len(found) THEN "done" ELSE "next"
    /\ UNCHANGED <<script, args, dirs, walked, found, command>>

(***************************************************************************)
(* transcode-videos.py                                                     *)
(***************************************************************************)
TranscodeVideosSearch ==
    /\ pc = "start"
    /\ script = "transcode-videos"
    /\ IF args.directory = <<>> /\ args.file = <<>>
       THEN /\ pc' = "crashed"
            /\ UNCHANGED <<walked, found>>
       ELSE \E rev \in BOOLEAN :
              LET s == search_videos(args, fs, dirs, rev, TRUE)
              IN  /\ walked' = s.walk
                  /\ found' = s.walk \o s.files
                  /\ pc' = IF s.walk \o s.files = <<>> THEN "done" ELSE "next"
    /\ UNCHANGED <<script, args, fs, dirs, videos, i, command, hist>>

\* transcode_video(v) of the main loop: v is the path search_videos yields, a
\* str, and video.info raises AttributeError, which nothing catches.
TranscodeVideosProcess ==
    /\ pc = "next"
    /\ script = "transcode-videos"
    /\ hist' = Append(hist, Ev("AttributeError", found[i], FALSE, -1, ContentAt(fs, found[i])))
    /\ pc' = "crashed"
    /\ UNCHANGED <<script, args, fs, dirs, walked, found, videos, i, command>>

Next ==
    \/ SearchVideos
    \/ GetSubtitles
    \/ TranscodeVideo
    \/ Ffmpeg
    \/ GetSubsSearch
    \/ GetSubsProcess
    \/ TranscodeVideosSearch
    \/ TranscodeVideosProcess

Spec == Init /\ [][Next]_vars

(***************************************************************************)
(* transcode_video on its own: one inspected file, any stream list of at   *)
(* most MaxStreams streams and any value of the two unsupported-codec      *)
(* sets of args.                                                           *)
(***************************************************************************)
StreamKinds ==
    { [codec_type |-> "video", codec_name |-> "hevc"],
      [codec_type |-> "video", codec_name |-> "h264"],
      [codec_type |-> "audio", codec_name |-> "dts"],
      [codec_type |-> "audio", codec_name |-> "aac"],
      [codec_type |-> "subtitle", codec_name |-> "subrip"] }

StreamLists ==
    UNION { { [k \in 1..n |-> Stream(k - 1, q[k].codec_type, q[k].codec_name)] :
              q \in [1..n -> StreamKinds] } : n \in 0..MaxStreams }

PlannerFile == Path(Top, "movie", ".mp4")

InitPlanner ==
    /\ script = "prepare-videos"
    /\ \E uv \in SUBSET {"hevc", "dts"}, ua \in SUBSET {"dts", "hevc"} :
          args = Args(CommandLine(<<>>, <<PlannerFile>>, Home), FALSE, uv, ua)
    /\ \E streams \in StreamLists :
          fs = [p \in {PlannerFile} |-> Content("orig", "a", streams)]
    /\ dirs = DirsOf(fs)
    /\ pc = "transcode_video"
    /\ walked = <<>>
    /\ found = <<PlannerFile>>
    /\ videos = <<Video(PlannerFile, fs)>>
    /\ i = 1
    /\ command = NoCommand
    /\ hist = <<>>

NextPlanner ==
    \/ TranscodeVideo
    \/ Ffmpeg

SpecPlanner == InitPlanner /\ [][NextPlanner]_vars

(***************************************************************************)
(* Properties.                                                             *)
(***************************************************************************)
Last(s) == s[Len(s)]

IsTool(e) == e.op \in {"mkvextract", "download_sub"}

\* C1: in prepare-videos.py, whenever the resolver is run on a video whose
\* sibling .srt exists at that moment, it calls neither the extraction nor the
\* download.
C1_NoToolWhenSrtExists ==
    script = "prepare-videos" =>
        \A k \in 1..Len(hist) :
            (hist[k].op = "get_subtitles" /\ hist[k].ok)
                => (k = Len(hist) \/ ~IsTool(hist[k + 1]))

\* The encoder has just returned non-zero (and the clean-up has run).
FailedEncodeReturned ==
    /\ hist # <<>>
    /\ \/ Last(hist).op = "ffmpeg" /\ ~Last(hist).ok
       \/ /\ Last(hist).op = "remove"
          /\ hist[Len(hist) - 1].op = "ffmpeg" /\ ~hist[Len(hist) - 1].ok

\* C2: when the encoder was invoked and returned non-zero, then as
\* transcode_video returns the target path does not exist, the backup path
\* holds the original, and the output is not inspected or resolved.
C2_FailedEncodeLeavesBackup ==
    /\ FailedEncodeReturned =>
          /\ ~Exists(fs, command.output)
          /\ Exists(fs, command.input)
          /\ command.input = OriginalFile(videos[i - 1].path)
          /\ command.output = TargetPath(videos[i - 1].path, args.container)
          /\ \E k \in 1..Len(hist) :
                /\ hist[k].op = "ffmpeg" /\ ~hist[k].ok /\ k >= Len(hist) - 1
                /\ hist[k - 1].op = "rename"
                /\ fs[command.input] = hist[k - 1].input
                /\ hist[k - 1].input.kind = "orig"
    /\ \A k \in 2..Len(hist) :
          (hist[k].op = "ffprobe" /\ hist[k - 1].op \in {"ffmpeg", "remove"})
              => (hist[k - 1].op = "ffmpeg" /\ hist[k - 1].ok)

\* C2's case: a failed encoder that left a partial file at the target.
C2_Witness ==
    /\ FailedEncodeReturned
    /\ Last(hist).op = "remove"
    /\ Last(hist).input.kind = "partial"

\* The video transcode_video is about to be run on needs transcoding.
AtTranscode == pc = "transcode_video" /\ NeedsTranscode(videos[i], args)

CurBackup == OriginalFile(videos[i].path)

CurTarget == TargetPath(videos[i].path, args.container)

\* C3: transcode_video on a source that needs transcoding, with both
\* .original/<filename> and <basename>.<container> present, does not invoke the
\* encoder and leaves every file and directory as it is.
C3_ConflictGuard ==
    [][ (AtTranscode /\ Exists(fs, CurBackup) /\ IsFile(fs, CurTarget))
            => (fs' = fs /\ dirs' = dirs /\ pc' # "ffmpeg") ]_vars

\* C3's case: the transcode of a file was cancelled with both artifacts present.
C3_Witness ==
    /\ hist # <<>>
    /\ Last(hist).op = "cancel"
    /\ Exists(fs, OriginalFile(Last(hist).path))
    /\ IsFile(fs, TargetPath(Last(hist).path, args.container))
    /\ TargetPath(Last(hist).path, args.container) # Last(hist).path

\* The directories of a path that lie below the scanned root.
BelowRoot(p) == {p.dir[n] : n \in (Len(args.directory[1]) + 1)..Len(p.dir)}

\* C4: the recursive scan of prepare-videos.py and transcode-videos.py never
\* yields a path with a directory named .original among its ancestors below
\* the root.
C4_NothingUnderOriginal ==
    script \in {"prepare-videos", "transcode-videos"} =>
        \A k \in 1..Len(walked) : ".original" \notin BelowRoot(walked[k])

\* The record of a discovered path (the records of one path are equal: all are
\* built by search_videos before any file is touched).
VideoOf(p) == CHOOSE v \in {videos[n] : n \in 1..Len(videos)} : v.path = p

IsDiscovered(p) == \E n \in 1..Len(videos) : videos[n].path = p

\* C5's video: unsupported video codec, an embedded subrip track, no sibling
\* .srt when discovered, download not forced.
C5_Case(v) ==
    /\ ~Supported(v, args).video
    /\ v.has_embedded_sub
    /\ ~v.has_external_sub
    /\ ~args.download_subtitles

\* C5 as claimed: for such a video, every extraction that creates
\* <basename>.srt reads the encoder's output and comes after a successful
\* encode of the video.
C5_ExtractionFromNewOutput ==
    script = "prepare-videos" =>
        \A n \in 1..Len(videos) :
            C5_Case(videos[n]) =>
                \A k \in 1..Len(hist) :
                    (/\ hist[k].op = "mkvextract" /\ hist[k].ok
                     /\ SubPath(hist[k].path) = SubPath(videos[n].path))
                        => /\ hist[k].input.kind = "enc"
                           /\ \E j \in 1..(k - 1) :
                                 /\ hist[j].op = "ffmpeg" /\ hist[j].ok
                                 /\ hist[j].path = videos[n].path

\* C5 as amended: for such a video the resolver runs on the original first:
\* before the original is moved or the encoder is invoked, mkvextract has been
\* called on the file at its original path with the track index found at
\* discovery.  After a successful encode the output is inspected and resolved,
\* and it is extracted from, with the track index of that inspection, only
\* when <basename>.srt does not exist then.
C5_ExtractionBeforeEncode ==
    script = "prepare-videos" =>
        /\ \A k \in 1..Len(hist) :
              (/\ hist[k].op \in {"rename", "ffmpeg"}
               /\ IsDiscovered(hist[k].path)
               /\ C5_Case(VideoOf(hist[k].path)))
                  => \E j \in 1..(k - 1) :
                        /\ hist[j].op = "mkvextract"
                        /\ hist[j].path = hist[k].path
                        /\ hist[j].track = VideoOf(hist[k].path).embedded_sub_id
                        /\ hist[j].input = hist[k].input
                        /\ hist[j].input.kind = "orig"
        /\ \A k \in 2..Len(hist) :
              (hist[k].op = "ffprobe" /\ hist[k].ok /\ hist[k - 1].op = "ffmpeg")
                  => /\ k < Len(hist)
                     /\ hist[k + 1].op = "get_subtitles"
                     /\ hist[k + 1].path = hist[k].path
                     /\ hist[k].input.kind = "enc"
                     /\ (k + 1 < Len(hist) /\ hist[k + 2].op = "mkvextract")
                            => /\ ~hist[k + 1].ok
                               /\ hist[k + 2].path = hist[k].path
                               /\ hist[k + 2].input = hist[k].input
                               /\ hist[k + 2].track
                                    = scan_embedded_subtitles(hist[k].input.streams).id

\* C5's case: such a video was encoded, its output inspected, and the
\* subtitle extracted from the output because no .srt existed by then.
C5_Witness ==
    \E k \in 2..Len(hist) :
        /\ hist[k].op = "ffprobe" /\ hist[k].ok /\ hist[k - 1].op = "ffmpeg"
        /\ IsDiscovered(hist[k - 1].path) /\ C5_Case(VideoOf(hist[k - 1].path))
        /\ k + 1 < Len(hist)
        /\ hist[k + 2].op = "mkvextract" /\ hist[k + 2].ok
        /\ hist[k + 2].track # VideoOf(hist[k - 1].path).embedded_sub_id

\* C6: whenever mkvextract returns non-zero, the resolver calls the download
\* for the same video next (in prepare-videos.py and in get-subs.py).
C6_ExtractionFailureFallsBack ==
    \A k \in 1..Len(hist) :
        (hist[k].op = "mkvextract" /\ ~hist[k].ok)
            => /\ k < Len(hist)
               /\ hist[k + 1].op = "download_sub"
               /\ hist[k + 1].path = hist[k].path

FailedProbe(k) == k \in 1..Len(hist) /\ hist[k].op = "ffprobe" /\ ~hist[k].ok

Resolved(p) == \E k \in 1..Len(hist) : hist[k].op = "get_subtitles" /\ hist[k].path = p

\* C7: a non-zero status of ffprobe for one file skips only that file: the run
\* does not end there, and when it ends every other discovered file has been
\* through the resolver.
C7_ProbeFailureSkipsOneFile ==
    \A k \in 1..Len(hist) :
        (FailedProbe(k) /\ \E n \in 1..Len(found) : found[n] # hist[k].path) =>
            /\ pc \notin {"exit1", "crashed"}
            /\ pc = "done" =>
                  \A n \in 1..Len(found) : found[n] # hist[k].path => Resolved(found[n])

\* C8 as claimed: when a file needs transcoding and the backup path exists, or
\* a file other than the source is at the target path, transcode_video leaves
\* every file and directory as it is.
C8_ConflictLeavesStateUntouched ==
    [][ (AtTranscode /\ (\/ Exists(fs, CurBackup)
                         \/ IsFile(fs, CurTarget) /\ CurTarget # videos[i].path))
            => (fs' = fs /\ dirs' = dirs) ]_vars

\* C8 as amended: when the backup path exists nothing changes; when it does
\* not and a file other than the source is at the target path, the source is
\* moved to the backup path (.original created when absent) and nothing else
\* changes; the encoder is invoked in neither case.
C8_ConflictMovesOnlyTheSource ==
    [][ AtTranscode =>
          /\ Exists(fs, CurBackup)
                => (fs' = fs /\ dirs' = dirs /\ pc' # "ffmpeg")
          /\ (/\ ~Exists(fs, CurBackup) /\ Exists(fs, videos[i].path)
              /\ IsFile(fs, CurTarget) /\ CurTarget # videos[i].path)
                => /\ DOMAIN fs' = (DOMAIN fs \ {videos[i].path}) \cup {CurBackup}
                   /\ fs'[CurBackup] = fs[videos[i].path]
                   /\ \A q \in DOMAIN fs \ {videos[i].path} : fs'[q] = fs[q]
                   /\ dirs' = dirs \cup {OriginalDir(videos[i].path)}
                   /\ pc' # "ffmpeg" ]_vars

\* C8's case: the target existed, the source was moved and the file skipped.
C8_Witness ==
    /\ hist # <<>>
    /\ Last(hist).op = "skip"
    /\ Exists(fs, OriginalFile(Last(hist).path))
    /\ ~Exists(fs, Last(hist).path)
    /\ IsFile(fs, TargetPath(Last(hist).path, args.container))

Range(q) == {q[n] : n \in 1..Len(q)}

\* The orders of a stream list.
Orders(q) == {[n \in 1..Len(q) |-> q[f[n]]] : f \in Permutations(1..Len(q))}

SomeUnsupported(streams, t, names) ==
    \E x \in Range(streams) : x.codec_type = t /\ x.codec_name \in names

\* The encoder options the claim expects for a stream list.
ExpectedOpts(streams, a) ==
    <<"-nostats", "-loglevel", "0">>
    \o (IF SomeUnsupported(streams, "video", a.unsupported_video_codecs)
        THEN <<"-c:v", a.vcodec, "-preset", "slow">> ELSE <<"-vcodec", "copy">>)
    \o (IF SomeUnsupported(streams, "audio", a.unsupported_audio_codecs)
        THEN <<"-c:a", a.audio_codec>> ELSE <<"-acodec", "copy">>)
    \o <<"-scodec", "copy">>

\* C9: whenever the encoder is invoked, its command re-encodes video (audio)
\* exactly when some video (audio) stream has a codec in the unsupported video
\* (audio) set, copies it otherwise, always copies subtitles, and is the same
\* for every order of the streams.
C9_CommandFollowsUnsupportedSets ==
    pc = "ffmpeg" =>
        /\ command.opts = ExpectedOpts(videos[i].info, args)
        /\ \A q \in Orders(videos[i].info) :
              ffmpeg_command([videos[i] EXCEPT !.info = q], args) = command

\* C9's case: only the video codec is unsupported, an audio stream comes
\* first, and the command re-encodes the video and copies the audio.
C9_Witness ==
    /\ pc = "ffmpeg"
    /\ Len(videos[i].info) >= 2
    /\ videos[i].info[1].codec_type = "audio"
    /\ args.unsupported_audio_codecs # {}
    /\ HasOpt(command, "-c:v") /\ HasOpt(command, "-acodec")

BothSetsEmpty == args.unsupported_video_codecs = {} /\ args.unsupported_audio_codecs = {}

\* C10: with both unsupported-codec sets empty transcode_video does nothing,
\* whatever the streams: the encoder is not invoked, no .original directory is
\* created, and the file stays where it is, as it is.
C10_EmptySetsNoOp ==
    BothSetsEmpty =>
        /\ pc # "ffmpeg"
        /\ \A k \in 1..Len(hist) : hist[k].op \notin {"rename", "ffmpeg", "remove"}
        /\ OriginalDir(PlannerFile) \notin dirs
        /\ DOMAIN fs = {PlannerFile}
        /\ fs[PlannerFile] = Content("orig", "a", videos[1].info)

\* C10's case: transcode_video has returned for a file with hevc video and dts
\* audio, under empty sets.
C10_Witness ==
    /\ BothSetsEmpty
    /\ pc = "done"
    /\ hist # <<>> /\ Last(hist).op = "transcode_video"
    /\ \E x \in Range(videos[1].info) : x.codec_name = "hevc"
    /\ \E x \in Range(videos[1].info) : x.codec_name = "dts"

\* The resolver call at hist[k] is the one transcode_video makes on the
\* encoder's output, not one of the main loop.
ReResolved(k) == k > 2 /\ hist[k - 1].op = "ffprobe" /\ hist[k - 2].op = "ffmpeg"

\* Whether the record the resolver was called with at hist[k] has an embedded
\* subtitle track: the record built at discovery for a call of the main loop
\* of prepare-videos.py, a record built from the file just before the call
\* otherwise.
RecordEmbedded(k) ==
    IF script = "prepare-videos" /\ ~ReResolved(k)
    THEN VideoOf(hist[k].path).has_embedded_sub
    ELSE scan_embedded_subtitles(hist[k].input.streams).has

UnresolvedCall(k) == k \in 1..Len(hist) /\ hist[k].op = "get_subtitles" /\ ~hist[k].ok

\* C11: a resolver call on a video without sibling .srt is followed at once by
\* one tool call for that video: mkvextract when the record has an embedded
\* subtitle track and -ds is absent, the download otherwise.  A discovered
\* file with supported codecs and no embedded track is never moved or encoded
\* by prepare-videos.py.
C11_InitialChoice ==
    /\ \A k \in 1..Len(hist) :
          UnresolvedCall(k) =>
              /\ k < Len(hist)
              /\ hist[k + 1].path = hist[k].path
              /\ hist[k + 1].op = IF RecordEmbedded(k) /\ ~args.download_subtitles
                                  THEN "mkvextract" ELSE "download_sub"
    /\ script = "prepare-videos" =>
          \A k \in 1..Len(hist) :
              (/\ IsDiscovered(hist[k].path)
               /\ ~NeedsTranscode(VideoOf(hist[k].path), args)
               /\ ~VideoOf(hist[k].path).has_embedded_sub)
                  => /\ hist[k].op \notin {"rename", "ffmpeg", "cancel", "skip", "mkvextract"}
                     /\ hist[k].op = "transcode_video" => ~hist[k].ok

\* C11's cases: -ds given and an embedded track present, the download was
\* invoked; and a file with supported codecs, no subtitle stream and no .srt
\* went through the download and was found to need no transcoding.
C11_Witness ==
    /\ \E k \in 1..Len(hist) :
          /\ UnresolvedCall(k) /\ RecordEmbedded(k) /\ args.download_subtitles
          /\ k < Len(hist) /\ hist[k + 1].op = "download_sub"
    /\ \E k \in 1..Len(hist) :
          /\ UnresolvedCall(k) /\ ~RecordEmbedded(k) /\ script = "prepare-videos"
          /\ k + 1 < Len(hist) /\ hist[k + 1].op = "download_sub"
          /\ hist[k + 2].op = "transcode_video" /\ ~hist[k + 2].ok
          /\ hist[k + 2].path = hist[k].path

NothingGiven == args.directory = <<>> /\ args.file = <<>>

\* C12: a run of prepare-videos.py given neither a directory nor a file ends
\* with exit code 1 before any call on a file; every other run (no tool is
\* missing in any run here) never ends with exit code 1 or an uncaught error.
C12_ExitCodes ==
    script = "prepare-videos" =>
        /\ (NothingGiven /\ pc # "start") => (pc = "exit1" /\ hist = <<>>)
        /\ ~NothingGiven => pc \notin {"exit1", "crashed"}

\* The explicit files of the command line that qualify.
QualifyingFiles == SelectSeq(args.file, LAMBDA p : is_supported_video_file(fs, p))

\* C13: given both a directory and explicit files, search_videos yields the
\* qualifying files of the walk and then every qualifying explicit file, as
\* passed on the command line.
C13_ExplicitFilesKept ==
    [][ (pc = "start" /\ args.directory # <<>> /\ args.file # <<>>)
            => found' = walked' \o QualifyingFiles ]_vars

\* The file at p holds what fsx held at q.
Holds(fsy, p, fsx, q) == p \in DOMAIN fsy /\ fsy[p] = fsx[q]

\* The content a discovered video had when it was inspected.
OriginalOf(v) ==
    LET k == CHOOSE n \in 1..Len(Candidates) : Candidates[n].path = v.path
    IN  Content("orig", Candidates[k].origin, v.info)

\* C14: in every state of a run of prepare-videos.py the original content of
\* each discovered video is at its path or at .original/<filename>; and every
\* step leaves each original where it is, unchanged, or moves it to its backup
\* path, which held no file before.
C14_OriginalsNeverLost ==
    /\ [](script = "prepare-videos" =>
            \A n \in 1..Len(videos) :
                \/ ContentAt(fs, videos[n].path) = OriginalOf(videos[n])
                \/ ContentAt(fs, OriginalFile(videos[n].path)) = OriginalOf(videos[n]))
    /\ [][ script = "prepare-videos" =>
              \A p \in DOMAIN fs :
                  fs[p].kind = "orig" =>
                      \/ Holds(fs', p, fs, p)
                      \/ /\ ~Exists(fs, OriginalFile(p))
                         /\ Holds(fs', OriginalFile(p), fs, p) ]_vars

\* C14's case: two discovered videos share a basename, a backup was there
\* before the run, and the encoder has just failed on a video whose original
\* is now at its backup path only.
C14_Witness ==
    /\ script = "prepare-videos"
    /\ FailedEncodeReturned
    /\ \E n, m \in 1..Len(videos) :
          n # m /\ videos[n].path.base = videos[m].path.base
    /\ \E p \in DOMAIN fs : fs[p].kind = "orig" /\ fs[p].origin \in {"d", "e"}
    /\ ~Exists(fs, videos[i - 1].path)
    /\ ContentAt(fs, OriginalFile(videos[i - 1].path)) = OriginalOf(videos[i - 1])

Ended == pc \in {"done", "exit1", "crashed"}

\* The steps a run has left at most: three for each file not yet taken by the
\* main loop, and those left for the current one.
StepsLeft ==
    IF Ended THEN 0
    ELSE IF pc = "start" THEN 3 * 2 * Len(Candidates) + 4
    ELSE 3 * (Len(found) - i)
         + (IF pc = "transcode_video" THEN 2 ELSE IF pc = "ffmpeg" THEN 1 ELSE 3)

EncoderCalls(p) == {k \in 1..Len(hist) : hist[k].op = "ffmpeg" /\ hist[k].path = p}

PlannerCalls == SelectSeq(hist, LAMBDA e : e.op = "transcode_video")

\* C15: the encoder is invoked at most once for each discovered path; the
\* planner is called only by the main loop, once for each record in turn, and
\* neither the move nor the encoder is ever given an encoder's output; every
\* step of a run brings its end nearer, so a run whose tool calls return ends
\* after finitely many steps.
C15_EncodeOncePerFile ==
    /\ [](/\ \A n \in 1..Len(found) : Cardinality(EncoderCalls(found[n])) <= 1
          /\ \A k \in 1..Len(hist) : hist[k].op = "ffmpeg" => IsDiscovered(hist[k].path)
          /\ \A k \in 1..Len(hist) :
                hist[k].op \in {"rename", "ffmpeg"} => hist[k].input.kind = "orig"
          /\ Len(PlannerCalls) <= Len(videos)
          /\ \A n \in 1..Len(PlannerCalls) : PlannerCalls[n].path = videos[n].path
          /\ StepsLeft \in 0..(3 * 2 * Len(Candidates) + 4))
    /\ [][StepsLeft' < StepsLeft]_vars

\* C15's case: the run is over, the encoder failed on a file that was listed
\* again later, and the second record was cancelled, not encoded.
C15_Witness ==
    /\ pc = "done"
    /\ \E k \in 1..Len(hist) :
          /\ hist[k].op = "ffmpeg" /\ ~hist[k].ok
          /\ \E j \in (k + 1)..Len(hist) :
                hist[j].op = "cancel" /\ hist[j].path = hist[k].path

\* C16: a run of transcode-videos.py that found at least one supported video
\* file never ends in an uncaught error: transcode_video reads the streams of
\* an inspected record.
C16_TranscodeVideosCompletes ==
    (script = "transcode-videos" /\ found # <<>>) =>
        /\ pc # "crashed"
        /\ \A k \in 1..Len(hist) : hist[k].op # "AttributeError"

====
